---- MODULE Spec2Model ----
(***************************************************************************)
(* ddmushi: the operation builder, the middleware chain of execute, the    *)
(* validation middlewares and parser, the options builders and the         *)
(* collection proxy (createCollectionBuilder / createRecursiveProxy).      *)
(*                                                                         *)
(* Values that flow through a chain (inputs, results, errors) are finite   *)
(* sequences of strings.  A context is a record [token, steps]: token is   *)
(* a credential field of the shared context, steps the set of fields that  *)
(* middlewares added on the way down.                                      *)
(***************************************************************************)
EXTENDS Integers, Sequences, FiniteSets, TLC

VARIABLES metas, operations, calls,
          objects, views, collections, accessors, last,
          descriptors, invoked, keyed, validated

vars == <<metas, operations, calls, objects, views, collections, accessors, last,
          descriptors, invoked, keyed, validated>>

builderVars == <<metas, operations, calls>>
optionVars  == <<descriptors, invoked>>
pureVars    == <<keyed, validated>>
proxyVars   == <<objects, views, collections, accessors, last, optionVars, pureVars>>

(***************************************************************************)
(* Bounds                                                                  *)
(***************************************************************************)
MaxBuilders == 3
MaxOps      == 1
MaxViews    == 2
MaxAccessors == 3
MaxNested   == 1
MaxLeaves   == 1
MaxDerived  == 2

(***************************************************************************)
(* Middlewares a caller can hand to .use(), by behaviour                   *)
(*   pass      logs, adds a field to the context, calls next, logs         *)
(*   auth      raises when the context has no token, else next(opts)       *)
(*   short     returns its own value, never calls next                     *)
(*   swallow   try { next } catch { return a substitute value }            *)
(*   transform try { next } catch { throw a different error }              *)
(* and the two middlewares the library creates: input, output.             *)
(***************************************************************************)
UserMiddlewares == {"pass", "auth", "short", "swallow", "transform"}
Handlers == {"echo", "fail"}
RawInputs == {<<"good">>, <<"bad">>}
Contexts == {[token |-> t, steps |-> {}] : t \in BOOLEAN}

Ok(v)  == [ok |-> TRUE, val |-> v]
Err(e) == [ok |-> FALSE, val |-> e]

(***************************************************************************)
(* Schemas: the standard-schema validate() of the input schema and of the  *)
(* output schema.  Both coerce (the value they return differs from the raw *)
(* one) and both reject a value that carries "bad".                        *)
(***************************************************************************)
HasBad(v) == \E i \in 1..Len(v) : v[i] = "bad"

Validate(schema, v) ==
  IF HasBad(v)
    THEN [hasIssues |-> TRUE, issues |-> <<schema>>, value |-> <<>>]
    ELSE [hasIssues |-> FALSE, issues |-> <<>>,
          value |-> IF Len(v) > 0 /\ v[Len(v)] = schema THEN v
                    ELSE Append(v, schema)]

\* parser['~standard'].validate(value): the result, or a promise of it
SchemaResult(schema, async, v) ==
  [promise |-> async, result |-> Validate(schema, v)]

\* the fields read off a promise are undefined
NoAwait(x) ==
  IF x.promise THEN [hasIssues |-> FALSE, issues |-> <<>>, value |-> <<>>]
  ELSE x.result

\* await
Await(x) == x.result

\* getParser: throw the issues, or return result.value
GetParser(schema, async, v) ==
  LET result == Await(SchemaResult(schema, async, v))
  IN IF result.hasIssues THEN Err(<<"ValidationError">> \o result.issues)
     ELSE Ok(result.value)

ParseIgnoringIssues(schema, v) == Ok(Validate(schema, v).value)

\* parse(value) inside the validation middlewares
Parse(schema, v) == GetParser(schema, FALSE, v)

(***************************************************************************)
(* Operation builder.  metas[b] is the _meta of builder b; builder 1 is    *)
(* createOperationBuilder() of the router.  An operation keeps a reference *)
(* to the _meta it was finalized from and reads it on every invocation.    *)
(***************************************************************************)
EmptyMeta == [inputs |-> <<>>, output |-> "", middlewares |-> <<>>]

\* createOperationBuilder(defaultMeta): a fresh _meta object
CreateOperationBuilder(ms, defaultMeta) == Append(ms, defaultMeta)

PushUse(ms, b, m) ==
  LET pushed == [ms EXCEPT ![b].middlewares = Append(@, m)]
  IN CreateOperationBuilder(pushed, pushed[b])

UseMeta(ms, b, m) ==
  CreateOperationBuilder(ms, [ms[b] EXCEPT !.middlewares = Append(@, m)])

InputMetaFirst(ms, b, parser) ==
  CreateOperationBuilder(ms,
    [inputs |-> Append(ms[b].inputs, parser),
     middlewares |-> <<"input">> \o ms[b].middlewares,
     output |-> ms[b].output])

InputMeta(ms, b, parser) ==
  CreateOperationBuilder(ms,
    [inputs |-> Append(ms[b].inputs, parser),
     middlewares |-> Append(ms[b].middlewares, "input"),
     output |-> ms[b].output])

OutputMeta(ms, b, parser) ==
  CreateOperationBuilder(ms,
    [ms[b] EXCEPT !.output = parser,
                  !.middlewares = Append(@, "output")])

\* execute(type, handler, meta): the Operation value; held is what the
\* builder's middleware list was when the operation was finalized, born how
\* many builders existed then
Execute(type, handler, b, ms) ==
  [type |-> type, handler |-> handler, meta |-> b,
   held |-> ms[b].middlewares, born |-> Len(ms)]

Use(b, m) ==
  /\ b \in 1..Len(metas)
  /\ Len(metas) <= MaxBuilders
  /\ metas' = UseMeta(metas, b, m)
  /\ UNCHANGED <<operations, calls, proxyVars>>

Input(b) ==
  /\ b \in 1..Len(metas)
  /\ Len(metas) <= MaxBuilders
  /\ metas' = InputMeta(metas, b, "in")
  /\ UNCHANGED <<operations, calls, proxyVars>>

Output(b) ==
  /\ b \in 1..Len(metas)
  /\ Len(metas) <= MaxBuilders
  /\ metas' = OutputMeta(metas, b, "out")
  /\ UNCHANGED <<operations, calls, proxyVars>>

Query(b, h) ==
  /\ b \in 1..Len(metas)
  /\ Len(operations) < MaxOps
  /\ operations' = Append(operations, Execute("query", h, b, metas))
  /\ UNCHANGED <<metas, calls, proxyVars>>

Mutation(b, h) ==
  /\ b \in 1..Len(metas)
  /\ Len(operations) < MaxOps
  /\ operations' = Append(operations, Execute("mutation", h, b, metas))
  /\ UNCHANGED <<metas, calls, proxyVars>>

(***************************************************************************)
(* Middleware chain.  A composed function is the sequence of the declared  *)
(* positions (indices of meta.middlewares) it enters, outermost first; the *)
(* user handler (executeWithOpts) sits behind the last of them.            *)
(***************************************************************************)
NoCtx  == [token |-> FALSE, steps |-> {}]
NoOpts == [ctx |-> NoCtx, input |-> <<>>]
NoRes  == Ok(<<>>)

\* (next, middleware) => async (opts) => await middleware({opts, next})
Wrap(i, next) == <<i>> \o next

RECURSIVE ReduceRight(_, _, _)
ReduceRight(mws, i, next) ==
  IF i = 0 THEN next ELSE ReduceRight(mws, i - 1, Wrap(i, next))

RECURSIVE ReduceLeft(_, _, _)
ReduceLeft(mws, i, next) ==
  IF i > Len(mws) THEN next ELSE ReduceLeft(mws, i + 1, Wrap(i, next))

ComposedLeft(mws) == ReduceLeft(mws, 1, <<>>)

\* meta.middlewares.reduceRight(..., executeWithOpts)
Composed(mws) == ReduceRight(mws, Len(mws), <<>>)

\* composed({ input, ctx: handlerOpts.ctx })
InitialOpts(orig) == [ctx |-> orig.ctx, input |-> orig.input]

HandlerOptsStale(orig, opts) == [ctx |-> opts.ctx, input |-> orig.input]

\* executeWithOpts: handler({...handlerOpts, input: opts.input, ctx: opts.ctx})
HandlerOpts(orig, opts) == [ctx |-> opts.ctx, input |-> opts.input]

\* the user handler
RunHandlerFn(h, opts) ==
  IF h = "echo" THEN Ok(<<"res">> \o opts.input) ELSE Err(<<"HandlerError">>)

CallNext(opts) == [act |-> "next", opts |-> opts, res |-> NoRes]
Finish(res)    == [act |-> "finish", opts |-> NoOpts, res |-> res]

\* createInputMiddleware: parse(opts.input), then next({...opts, input: parsed})
ValidateInputMiddleware(opts) ==
  LET parsed == Parse("in", opts.input)
  IN IF parsed.ok THEN CallNext([opts EXCEPT !.input = parsed.val])
     ELSE Finish(parsed)

OutputParsesRejection(res) == Parse("out", res.val)

OutputMiddlewareRaw(res) == res

\* createOutputMiddleware, after result = await next(opts): parse(result)
ValidateOutputMiddleware(res) ==
  IF res.ok THEN Parse("out", res.val) ELSE res

\* what middleware m, declared at position i, does when it is called
MiddlewareBefore(m, i, opts) ==
  CASE m = "pass"  -> CallNext([opts EXCEPT !.ctx.steps = @ \cup {i}])
    [] m = "auth"  -> IF opts.ctx.token THEN CallNext(opts)
                      ELSE Finish(Err(<<"Unauthorized">>))
    [] m = "short" -> Finish(Ok(<<"short">>))
    [] m = "input" -> ValidateInputMiddleware(opts)
    [] OTHER       -> CallNext(opts)

Catches(m) == m \in {"swallow", "transform"}

\* what middleware m does when its await next(...) settles with res
MiddlewareAfter(m, res) ==
  CASE m = "swallow"   -> IF res.ok THEN res ELSE Ok(<<"fallback">>)
    [] m = "transform" -> IF res.ok THEN res ELSE Err(<<"Internal">>)
    [] m = "output"    -> ValidateOutputMiddleware(res)
    [] OTHER           -> res

WrapperAlwaysNext(d, opts) ==
  IF d.act = "finish" /\ d.res.ok THEN CallNext(opts) ELSE d

\* the wrapper built by reduceRight: (await middleware({opts, next})) as TData;
\* d is what the middleware did, opts what the wrapper was called with
Wrapper(d, opts) == d

NextDropsResult(res) == Ok(<<>>)

\* next: async (newOpts) => await next(newOpts)
NextBridge(res) == res

QueryFnSwallow(res) == IF res.ok THEN res ELSE Ok(<<>>)

\* queryFn / mutationFn: async (...) => await query({...opts, input})
FnResult(res) == res

Event(ev, who, opts, res) ==
  [ev |-> ev, who |-> who, ctx |-> opts.ctx, input |-> opts.input,
   ok |-> res.ok, val |-> res.val]

IdleCall ==
  [st |-> "idle", via |-> "", op |-> 0, mws |-> <<>>, handler |-> "",
   orig |-> NoOpts, chain |-> <<>>, pos |-> 0, pc |-> "", arg |-> NoOpts,
   res |-> NoRes, stack |-> <<>>, trace |-> <<>>, hcalls |-> 0,
   outcome |-> NoRes]

CallIds == {1, 2}

\* composedHandler({input, ...handlerOpts}) up to the call of composed(...):
\* the record of the invocation
Started(via, o, ctx, input) ==
  LET op   == operations[o]
      mws  == metas[op.meta].middlewares
      orig == [ctx |-> ctx, input |-> input]
  IN [IdleCall EXCEPT !.st = "run", !.via = via, !.op = o, !.mws = mws,
                      !.handler = op.handler, !.orig = orig,
                      !.chain = Composed(mws), !.pos = 1, !.pc = "call",
                      !.arg = InitialOpts(orig)]

StartCall(k, via, o, ctx, input) ==
  /\ calls[k].st = "idle"
  /\ o \in 1..Len(operations)
  /\ calls' = [calls EXCEPT ![k] = Started(via, o, ctx, input)]
  /\ UNCHANGED <<metas, operations, proxyVars>>

\* descriptor.queryFn() of a query operation
QueryFn(k, o, ctx, input) ==
  /\ o \in 1..Len(operations)
  /\ operations[o].type = "query"
  /\ StartCall(k, "queryFn", o, ctx, input)

\* descriptor.mutationFn(variables) of a mutation operation
MutationFn(k, o, ctx, variables) ==
  /\ o \in 1..Len(operations)
  /\ operations[o].type = "mutation"
  /\ StartCall(k, "mutationFn", o, ctx, variables)

\* the composed function at position pos is called: middleware runs up to
\* its await next(...) or to its end
EnterMiddleware(k) ==
  LET c == calls[k] IN
  /\ c.st = "run" /\ c.pc = "call" /\ c.pos <= Len(c.chain)
  /\ LET i == c.chain[c.pos]
         dm == MiddlewareBefore(c.mws[i], i, c.arg)
         d  == Wrapper(dm, c.arg)
         entered == Append(c.trace, Event("enter", i, c.arg, NoRes))
         did == IF dm.act = "next"
                  THEN Append(entered, Event("next", i, dm.opts, NoRes))
                  ELSE Append(entered, Event("finish", i, NoOpts, dm.res))
     IN IF d.act = "next"
          THEN calls' = [calls EXCEPT ![k] =
                 [c EXCEPT !.trace = did,
                           !.stack = Append(@, [pos |-> c.pos, opts |-> c.arg]),
                           !.arg = d.opts, !.pos = c.pos + 1]]
          ELSE calls' = [calls EXCEPT ![k] =
                 [c EXCEPT !.trace = did, !.pc = "ret", !.res = d.res]]
  /\ UNCHANGED <<metas, operations, proxyVars>>

ArgShared(cs, k) ==
  LET others == {j \in CallIds \ {k} : cs[j].st = "run"}
  IN IF others = {} THEN cs[k].arg ELSE cs[CHOOSE j \in others : TRUE].arg

\* opts, the parameter executeWithOpts of this invocation was called with
ArgOf(cs, k) == cs[k].arg

\* executeWithOpts: the user handler runs
RunHandler(k) ==
  LET c == calls[k] IN
  /\ c.st = "run" /\ c.pc = "call" /\ c.pos = Len(c.chain) + 1
  /\ LET opts == HandlerOpts(c.orig, ArgOf(calls, k))
         r    == RunHandlerFn(c.handler, opts)
     IN calls' = [calls EXCEPT ![k] =
          [c EXCEPT !.trace = Append(@, Event("handler", 0, opts, r)),
                    !.hcalls = @ + 1, !.pc = "ret", !.res = r]]
  /\ UNCHANGED <<metas, operations, proxyVars>>

\* how many times the middleware declared at i called next since it was
\* last entered
NextsSinceEnter(c, i) ==
  LET entries == {p \in 1..Len(c.trace) :
                    c.trace[p].ev = "enter" /\ c.trace[p].who = i}
  IN Cardinality({p \in 1..Len(c.trace) :
       /\ c.trace[p].ev = "next" /\ c.trace[p].who = i
       /\ \A e \in entries : e < p})

\* a middleware of the kind "twice" awaits next NextCalls times, one call
\* after the other, and returns what the last call returned
NextCalls == 2

OnceOnly(c) == FALSE

\* the innermost suspended middleware, whose await next(...) has just been
\* fulfilled, goes on to call next again: nothing in next prevents it
Again(c) ==
  /\ c.stack # <<>>
  /\ c.res.ok
  /\ LET i == c.chain[c.stack[Len(c.stack)].pos]
     IN c.mws[i] = "twice" /\ NextsSinceEnter(c, i) < NextCalls

\* next(newOpts) called again by the innermost suspended middleware, with an
\* input of its own for this call
CallAgain(k) ==
  LET c == calls[k] IN
  /\ c.st = "run" /\ c.pc = "ret"
  /\ Again(c)
  /\ LET f == c.stack[Len(c.stack)]
         i == c.chain[f.pos]
         newOpts == [f.opts EXCEPT !.input = Append(@, "again")]
     IN calls' = [calls EXCEPT ![k] =
          [c EXCEPT !.trace = Append(@, Event("next", i, newOpts, NoRes)),
                    !.arg = newOpts, !.pos = f.pos + 1, !.pc = "call"]]
  /\ UNCHANGED <<metas, operations, proxyVars>>

\* await next(...) settles in the innermost suspended middleware
Resume(k) ==
  LET c == calls[k] IN
  /\ c.st = "run" /\ c.pc = "ret" /\ c.stack # <<>>
  /\ ~Again(c)
  /\ LET f == c.stack[Len(c.stack)]
         i == c.chain[f.pos]
         m == c.mws[i]
         got == NextBridge(c.res)
         r == MiddlewareAfter(m, got)
         t == IF got.ok THEN Append(c.trace, Event("exit", i, f.opts, r))
              ELSE IF Catches(m) THEN Append(c.trace, Event("catch", i, f.opts, r))
              ELSE c.trace
     IN calls' = [calls EXCEPT ![k] =
          [c EXCEPT !.trace = t, !.res = r,
                    !.stack = SubSeq(@, 1, Len(@) - 1)]]
  /\ UNCHANGED <<metas, operations, proxyVars>>

\* the promise of queryFn / mutationFn settles
Settle(k) ==
  LET c == calls[k] IN
  /\ c.st = "run" /\ c.pc = "ret" /\ c.stack = <<>>
  /\ calls' = [calls EXCEPT ![k] =
       [c EXCEPT !.st = "done", !.pc = "", !.outcome = FnResult(c.res)]]
  /\ UNCHANGED <<metas, operations, proxyVars>>

(***************************************************************************)
(* Collection proxy.  A JavaScript value is [t, ref]: undefined, null, a   *)
(* primitive (ref is the number), a reference to a target object           *)
(* (objects[ref]), a resolver view (views[ref], a Proxy) or an accessor    *)
(* object (accessors[ref]).  A target object has its tag fields (_type,    *)
(* _operationType, "" when absent), may be an array, and has properties.   *)
(***************************************************************************)
Val(t, ref) == [t |-> t, ref |-> ref]
NoValue     == Val("undefined", 0)
Null        == Val("null", 0)
Prim(n)     == Val("prim", n)
Obj(id)     == Val("obj", id)
ViewVal(id) == Val("view", id)
AccessorVal(id) == Val("accessor", id)

Props == {"users", "admin", "get", "create", "version", "tags",
          "none", "odd", "missing", "@@sym"}

\* typeof prop === 'string'
IsString(prop) == prop # "@@sym"

Fields(f) == [p \in Props |-> IF p \in DOMAIN f THEN f[p] ELSE NoValue]

PlainObject(f) ==
  [isArray |-> FALSE, type |-> "", opType |-> "", props |-> Fields(f)]

Tagged(type, opType) ==
  [isArray |-> FALSE, type |-> type, opType |-> opType, props |-> Fields(<<>>)]

ArrayObject ==
  [isArray |-> TRUE, type |-> "", opType |-> "", props |-> Fields(<<>>)]

RouterCtx == [token |-> TRUE, steps |-> {}]

\* The api tree a caller wrote.  users is either a plain nested mapping or
\* the view returned by an earlier router.collection({...}) (wrapped).
Tree(wrapped) ==
  <<
    \* 1: api root
    PlainObject("users" :> (IF wrapped THEN ViewVal(1) ELSE Obj(2))
             @@ "version" :> Prim(42) @@ "tags" :> Obj(4)
             @@ "none" :> Null @@ "odd" :> Obj(5) @@ "get" :> Obj(6)
             @@ "@@sym" :> Obj(2)),
    \* 2: users
    PlainObject("get" :> Obj(6) @@ "create" :> Obj(7) @@ "admin" :> Obj(3)
             @@ "version" :> Prim(0) @@ "odd" :> Obj(8)),
    \* 3: admin
    PlainObject("get" :> Obj(6) @@ "tags" :> Obj(4)),
    \* 4: an array
    ArrayObject,
    \* 5: tagged as an operation of an unknown kind
    Tagged("operation", "subscription"),
    \* 6: Operation<'query'>, 7: Operation<'mutation'>
    Tagged("operation", "query"),
    Tagged("operation", "mutation"),
    \* 8: _operationType without _type
    Tagged("", "query")
  >>

NewView(target, path, ctx, trail) ==
  [target |-> target, path |-> path, ctx |-> ctx, trail |-> trail]

NoRegister(st, target, path, ctx, trail) ==
  [views |-> Append(st.views, NewView(target, path, ctx, trail)),
   collections |-> st.collections]

EagerChildren(st, target, path, ctx, trail) ==
  [views |-> Append(st.views, NewView(target, path, ctx, trail))
               \o <<NewView(target, Append(path, "users"), ctx,
                            Append(trail, "users"))>>,
   collections |-> Append(st.collections,
                     [proxy |-> Len(st.views) + 1, originalTarget |-> target,
                      isCollection |-> TRUE])]

\* createCollectionBuilder(meta, target, path): the Proxy, tracked in
\* _config.collections; st is [views, collections]
CreateCollectionBuilder(st, target, path, ctx, trail) ==
  [views |-> Append(st.views, NewView(target, path, ctx, trail)),
   collections |-> Append(st.collections,
                     [proxy |-> Len(st.views) + 1, originalTarget |-> target,
                      isCollection |-> TRUE])]

\* router.collection(users) when wrapped, then router.collection(api)
InitialViews(wrapped) ==
  LET none  == [views |-> <<>>, collections |-> <<>>]
      inner == IF wrapped
                 THEN CreateCollectionBuilder(none, 2, <<>>, RouterCtx, <<>>)
                 ELSE none
  IN CreateCollectionBuilder(inner, 1, <<>>, RouterCtx, <<>>)

Truthy(v) ==
  /\ v.t \notin {"undefined", "null"}
  /\ v.t = "prim" => v.ref # 0

TypeofObject(v) == v.t \in {"null", "obj", "view", "accessor"}

\* the object whose fields a read through v reaches (a Proxy without a has
\* trap answers for its target)
Deref(objs, vws, v) ==
  IF v.t = "obj" THEN objs[v.ref]
  ELSE IF v.t = "view" THEN objs[vws[v.ref].target]
  ELSE PlainObject(<<>>)

IsQueryOperation(objs, vws, v) ==
  /\ Truthy(v)
  /\ TypeofObject(v)
  /\ Deref(objs, vws, v).type # ""
  /\ Deref(objs, vws, v).type = "operation"
  /\ Deref(objs, vws, v).opType # ""
  /\ Deref(objs, vws, v).opType = "query"

IsMutationOperation(objs, vws, v) ==
  /\ Truthy(v)
  /\ TypeofObject(v)
  /\ Deref(objs, vws, v).type # ""
  /\ Deref(objs, vws, v).type = "operation"
  /\ Deref(objs, vws, v).opType # ""
  /\ Deref(objs, vws, v).opType = "mutation"

IsCollectionLoose(objs, vws, v) == Truthy(v) /\ TypeofObject(v)

\* value !== null && typeof value === 'object' && !Array.isArray(value)
IsCollection(objs, vws, v) ==
  /\ v.t # "null"
  /\ TypeofObject(v)
  /\ ~Deref(objs, vws, v).isArray

TargetAsGiven(coll, v) == v.ref

\* _config.collections.get(operation)?.originalTarget ?? operation
TargetToProxy(coll, v) ==
  LET found == {i \in 1..Len(coll) : v.t = "view" /\ coll[i].proxy = v.ref}
  IN IF found # {} THEN coll[CHOOSE i \in found : TRUE].originalTarget
     ELSE v.ref

PathReset(path, prop) == <<prop>>

\* const currentPath = [...path, prop]
CurrentPath(path, prop) == Append(path, prop)

\* the object returned for an operation leaf
NewAccessor(kind, handler, path, ctx, trail) ==
  [kind |-> kind,
   methods |-> IF kind = "query" THEN {"queryOptions", "infiniteQueryOptions"}
               ELSE {"mutationOptions"},
   handler |-> handler, path |-> path, ctx |-> ctx, trail |-> trail]

\* buildQueryKey(path, input, kind); kind "" is an omitted kind.  The key is
\* the path segments followed by at most one marker object.
KeyKinds == {"", "query", "infinite"}

BuildQueryKeyUnkinded(path, input, kind) ==
  IF ~Truthy(input)
    THEN [segments |-> path, marker |-> <<>>]
    ELSE [segments |-> path,
          marker |-> <<[hasInput |-> TRUE, input |-> input,
                        hasKind |-> FALSE, kind |-> ""]>>]

BuildQueryKeyMarked(path, input, kind) ==
  [segments |-> path,
   marker |-> <<[hasInput |-> input.t # "undefined", input |-> input,
                 hasKind |-> TRUE, kind |-> kind]>>]

BuildQueryKey(path, input, kind) ==
  IF ~(Truthy(input) \/ kind # "")
    THEN [segments |-> path, marker |-> <<>>]
    ELSE [segments |-> path,
          marker |-> <<[hasInput |-> input.t # "undefined", input |-> input,
                        hasKind |-> TRUE, kind |-> kind]>>]

BuildMutationKey(path) == BuildQueryKey(path, NoValue, "")

\* the key of the descriptor that method of accessor a builds for input
OptionsKey(a, method, input) ==
  IF method = "queryOptions" THEN BuildQueryKey(a.path, input, "query")
  ELSE IF method = "infiniteQueryOptions"
    THEN BuildQueryKey(a.path, input, "infinite")
  ELSE BuildMutationKey(a.path)

Accessed(v, prop, result) == [view |-> v, prop |-> prop, result |-> result]

BoundOptsLatest(vws, v) == vws[Len(vws)].ctx

\* const { _config, ...opts } = meta: the options of the view being read
BoundOpts(vws, v) == vws[v].ctx

\* the get trap of view v for property prop; at most maxViews views are
\* built by navigation and at most maxAccessors accessor objects
Get(v, prop, maxViews, maxAccessors) ==
  /\ v \in 1..Len(views)
  /\ LET view        == views[v]
         obj         == objects[view.target]
         currentPath == CurrentPath(view.path, prop)
         operation   == obj.props[prop]
         trail       == Append(view.trail, prop)
     IN IF ~IsString(prop)
          THEN /\ last' = Accessed(v, prop, obj.props[prop])
               /\ UNCHANGED <<views, collections, accessors>>
        ELSE IF IsQueryOperation(objects, views, operation)
          THEN /\ Len(accessors) < maxAccessors
               /\ accessors' = Append(accessors,
                    NewAccessor("query", operation.ref, currentPath,
                                BoundOpts(views, v), trail))
               /\ last' = Accessed(v, prop, AccessorVal(Len(accessors) + 1))
               /\ UNCHANGED <<views, collections>>
        ELSE IF IsMutationOperation(objects, views, operation)
          THEN /\ Len(accessors) < maxAccessors
               /\ accessors' = Append(accessors,
                    NewAccessor("mutation", operation.ref, currentPath,
                                BoundOpts(views, v), trail))
               /\ last' = Accessed(v, prop, AccessorVal(Len(accessors) + 1))
               /\ UNCHANGED <<views, collections>>
        ELSE IF IsCollection(objects, views, operation)
          THEN /\ Cardinality({i \in 1..Len(views) : views[i].path # <<>>}) < maxViews
               /\ LET st == CreateCollectionBuilder(
                              [views |-> views, collections |-> collections],
                              TargetToProxy(collections, operation),
                              currentPath, BoundOpts(views, v), trail)
                  IN /\ views' = st.views
                     /\ collections' = st.collections
               /\ last' = Accessed(v, prop, ViewVal(Len(views) + 1))
               /\ UNCHANGED accessors
        ELSE /\ last' = Accessed(v, prop, operation)
             /\ UNCHANGED <<views, collections, accessors>>
  /\ UNCHANGED <<builderVars, objects, optionVars, pureVars>>

\* core.ts router(options, apiCollection): createProxy wraps the target and
\* keeps no registry
CreateProxy(vws, target, path, ctx, trail) ==
  Append(vws, NewView(target, path, ctx, trail))

\* value && typeof value === 'object'
CoreIsObject(v) == Truthy(v) /\ TypeofObject(v)

\* the objects core.ts returns for a leaf: { queryOptions } bound to
\* currentPath, { mutationOptions } bound to no path
CoreAccessor(kind, handler, path, ctx, trail) ==
  [kind |-> kind,
   methods |-> IF kind = "query" THEN {"queryOptions"} ELSE {"mutationOptions"},
   handler |-> handler,
   path |-> IF kind = "query" THEN path ELSE <<>>,
   ctx |-> ctx, trail |-> trail]

\* the get trap of the Proxy that core.ts createProxy returns
CoreGet(v, prop, maxViews, maxAccessors) ==
  /\ v \in 1..Len(views)
  /\ LET view        == views[v]
         obj         == objects[view.target]
         currentPath == CurrentPath(view.path, prop)
         value       == obj.props[prop]
         trail       == Append(view.trail, prop)
     IN IF ~IsString(prop)
          THEN /\ last' = Accessed(v, prop, obj.props[prop])
               /\ UNCHANGED <<views, accessors>>
        ELSE IF IsQueryOperation(objects, views, value)
          THEN /\ Len(accessors) < maxAccessors
               /\ accessors' = Append(accessors,
                    CoreAccessor("query", value.ref, currentPath, view.ctx, trail))
               /\ last' = Accessed(v, prop, AccessorVal(Len(accessors) + 1))
               /\ UNCHANGED views
        ELSE IF IsMutationOperation(objects, views, value)
          THEN /\ Len(accessors) < maxAccessors
               /\ accessors' = Append(accessors,
                    CoreAccessor("mutation", value.ref, currentPath, view.ctx, trail))
               /\ last' = Accessed(v, prop, AccessorVal(Len(accessors) + 1))
               /\ UNCHANGED views
        ELSE IF CoreIsObject(value)
          THEN /\ Cardinality({i \in 1..Len(views) : views[i].path # <<>>}) < maxViews
               /\ views' = CreateProxy(views, value.ref, currentPath, view.ctx, trail)
               /\ last' = Accessed(v, prop, ViewVal(Len(views) + 1))
               /\ UNCHANGED accessors
        ELSE /\ last' = Accessed(v, prop, value)
             /\ UNCHANGED <<views, accessors>>
  /\ UNCHANGED <<builderVars, objects, collections, optionVars, pureVars>>

(***************************************************************************)
(* Options builders.  descriptors[d] is an object returned by              *)
(* queryOptions / infiniteQueryOptions / mutationOptions of an accessor;   *)
(* invoked[k] records what the caller handed to the fetch function that    *)
(* started invocation k.                                                   *)
(***************************************************************************)
NoInvocation == [desc |-> 0, arg |-> <<>>, page |-> ""]

\* the last key built and the last value parsed
NoKeyed  == [path |-> <<>>, input |-> NoValue, kind |-> "",
             key |-> [segments |-> <<>>, marker |-> <<>>]]
NoParsed == [schema |-> "", async |-> FALSE, raw |-> <<>>, result |-> NoRes]

\* caller-supplied options: staleTime (0 when absent) and, possibly, a key
\* and a fetch function of the caller's own ("" when absent)
NoOverrides == [staleTime |-> 0, key |-> "", fn |-> ""]

OverrideObjects ==
  {NoOverrides,
   [staleTime |-> 5, key |-> "", fn |-> ""],
   [staleTime |-> 5, key |-> "custom", fn |-> "custom"]}

CustomKey == [segments |-> <<"custom">>, marker |-> <<>>]

\* an input object as the key builder sees it; ref identifies the object
InputValue(input) ==
  Val("data", Len(input) + (IF HasBad(input) THEN 10 ELSE 0))

OverridesLast(options, key) ==
  [staleTime |-> options.staleTime,
   key |-> IF options.key # "" THEN CustomKey ELSE key,
   fn  |-> IF options.fn # "" THEN options.fn ELSE "computed"]

\* { ...options, queryKey, queryFn } and { ...options, mutationKey, mutationFn }
OptionsObject(options, key) ==
  [staleTime |-> options.staleTime, key |-> key, fn |-> "computed"]

\* what accessors[a].<method>(input, options) returns
Descriptor(a, method, input, options) ==
  [accessor |-> a, method |-> method, input |-> input, options |-> options,
   object |-> OptionsObject(options,
                OptionsKey(accessors[a], method, InputValue(input)))]

BuildOptions(a, method, input, options, maxDescriptors) ==
  /\ a \in 1..Len(accessors)
  /\ method \in accessors[a].methods
  /\ Len(descriptors) < maxDescriptors
  /\ descriptors' = Append(descriptors, Descriptor(a, method, input, options))
  /\ UNCHANGED <<builderVars, objects, views, collections, accessors, last,
                 invoked, pureVars>>

\* accessor.queryOptions(input, options)
QueryOptions(a, input, options, maxDescriptors) ==
  BuildOptions(a, "queryOptions", input, options, maxDescriptors)

\* accessor.infiniteQueryOptions(input, options)
InfiniteQueryOptions(a, input, options, maxDescriptors) ==
  BuildOptions(a, "infiniteQueryOptions", input, options, maxDescriptors)

\* accessor.mutationOptions(options)
MutationOptions(a, options, maxDescriptors) ==
  BuildOptions(a, "mutationOptions", <<>>, options, maxDescriptors)

\* the Operation a leaf of the tree stands for: the query leaf is the query
\* operation, the mutation leaf the mutation operation
OperationAt(ref) ==
  CHOOSE o \in 1..Len(operations) : operations[o].type = objects[ref].opType

LatestInput(ds, d) == ds[Len(ds)].input

\* the input the fetch function of descriptor d closed over
DescriptorInput(ds, d) == ds[d].input

\* query({ ...opts, input })
QueryArgs(ctx, input) == [ctx |-> ctx, input |-> input]

\* query({ opts, input, pageParam: context.pageParam }): the argument has no
\* ctx of its own (NoCtx stands for the undefined the chain reads there);
\* opts and pageParam are fields beside input, which is passed as it is
InfiniteArgs(ctx, input, pageParam) == [ctx |-> NoCtx, input |-> input]

MutationArgsFrozen(ctx, variables) == [ctx |-> ctx, input |-> <<>>]

\* mutate({ ...opts, input }) with the variables of this call
MutationArgs(ctx, variables) == [ctx |-> ctx, input |-> variables]

Invoke(k, d, via, args, arg, page) ==
  /\ calls[k].st = "idle"
  /\ calls' = [calls EXCEPT ![k] =
       Started(via, OperationAt(accessors[descriptors[d].accessor].handler),
               args.ctx, args.input)]
  /\ invoked' = [invoked EXCEPT ![k] = [desc |-> d, arg |-> arg, page |-> page]]
  /\ UNCHANGED <<metas, operations, objects, views, collections, accessors,
                 last, descriptors, pureVars>>

\* descriptor.queryFn() of a queryOptions descriptor
InvokeQueryFn(k, d) ==
  /\ d \in 1..Len(descriptors)
  /\ descriptors[d].method = "queryOptions"
  /\ Invoke(k, d, "queryFn",
            QueryArgs(accessors[descriptors[d].accessor].ctx,
                      DescriptorInput(descriptors, d)),
            <<>>, "")

\* descriptor.queryFn({ pageParam }) of an infiniteQueryOptions descriptor
InvokeInfiniteQueryFn(k, d, pageParam) ==
  /\ d \in 1..Len(descriptors)
  /\ descriptors[d].method = "infiniteQueryOptions"
  /\ Invoke(k, d, "queryFn",
            InfiniteArgs(accessors[descriptors[d].accessor].ctx,
                         DescriptorInput(descriptors, d), pageParam),
            <<>>, pageParam)

\* descriptor.mutationFn(variables) of a mutationOptions descriptor
InvokeMutationFn(k, d, variables) ==
  /\ d \in 1..Len(descriptors)
  /\ descriptors[d].method = "mutationOptions"
  /\ Invoke(k, d, "mutationFn",
            MutationArgs(accessors[descriptors[d].accessor].ctx, variables),
            variables, "")

\* a direct call buildQueryKey(path, input, kind)
BuildKey(path, input, kind) ==
  /\ keyed' = [path |-> path, input |-> input, kind |-> kind,
               key |-> BuildQueryKey(path, input, kind)]
  /\ UNCHANGED <<builderVars, objects, views, collections, accessors, last,
                 optionVars, validated>>

\* a direct call getParser(schema)(value)
ParseValue(schema, async, v) ==
  /\ validated' = [schema |-> schema, async |-> async, raw |-> v,
                   result |-> GetParser(schema, async, v)]
  /\ UNCHANGED <<builderVars, objects, views, collections, accessors, last,
                 optionVars, keyed>>

(***************************************************************************)
(* Specifications                                                          *)
(***************************************************************************)

InitWith(wrapped) ==
  /\ metas = CreateOperationBuilder(<<>>, EmptyMeta)
  /\ operations = <<>>
  /\ calls = [k \in CallIds |-> IdleCall]
  /\ objects = Tree(wrapped)
  /\ views = InitialViews(wrapped).views
  /\ collections = InitialViews(wrapped).collections
  /\ accessors = <<>>
  /\ last = Accessed(0, "", NoValue)
  /\ descriptors = <<>>
  /\ invoked = [k \in CallIds |-> NoInvocation]
  /\ keyed = NoKeyed
  /\ validated = NoParsed

\* a router over the api tree written with plain nested mappings
Init == InitWith(FALSE)

\* a router over the api tree, users being a plain mapping or the view of an
\* earlier collection(...)
InitProxy == \E wrapped \in BOOLEAN : InitWith(wrapped)

\* One fluent chain router.operation.use(..).input(..)...query(h), then one
\* invocation of the operation through its descriptor.
NextChain ==
  \/ \E m \in UserMiddlewares : operations = <<>> /\ Use(Len(metas), m)
  \/ operations = <<>> /\ Input(Len(metas))
  \/ operations = <<>> /\ Output(Len(metas))
  \/ \E h \in Handlers : operations = <<>> /\ Query(Len(metas), h)
  \/ \E h \in Handlers : operations = <<>> /\ Mutation(Len(metas), h)
  \/ \E ctx \in Contexts, input \in RawInputs : QueryFn(1, 1, ctx, input)
  \/ \E ctx \in Contexts, input \in RawInputs : MutationFn(1, 1, ctx, input)
  \/ EnterMiddleware(1)
  \/ RunHandler(1)
  \/ Resume(1)
  \/ Settle(1)

SpecChain == Init /\ [][NextChain]_vars

\* One fluent chain of user middlewares and validations, then one query of
\* the operation by an authenticated caller.
ValidationMiddlewares == {"pass", "swallow", "transform"}

NextValidate ==
  \/ \E m \in ValidationMiddlewares : operations = <<>> /\ Use(Len(metas), m)
  \/ operations = <<>> /\ Input(Len(metas))
  \/ operations = <<>> /\ Output(Len(metas))
  \/ \E h \in Handlers : Query(Len(metas), h)
  \/ \E input \in RawInputs :
        QueryFn(1, 1, [token |-> TRUE, steps |-> {}], input)
  \/ EnterMiddleware(1)
  \/ RunHandler(1)
  \/ Resume(1)
  \/ Settle(1)

SpecValidate == Init /\ [][NextValidate]_vars

\* One fluent chain of middlewares that call next once or several times,
\* then one query of the operation.
RepeatMiddlewares == {"pass", "twice"}

NextRepeat ==
  \/ \E m \in RepeatMiddlewares : operations = <<>> /\ Use(Len(metas), m)
  \/ \E h \in Handlers : Query(Len(metas), h)
  \/ QueryFn(1, 1, [token |-> TRUE, steps |-> {}], <<"good">>)
  \/ EnterMiddleware(1)
  \/ RunHandler(1)
  \/ CallAgain(1)
  \/ Resume(1)
  \/ Settle(1)

SpecRepeat == Init /\ [][NextRepeat]_vars

\* Builders derived from any earlier builder, operations finalized from any
\* of them at any time, and invocations of those operations.
BuildMiddlewares == {"pass"}

NextBuild ==
  \/ \E b \in 1..Len(metas), m \in BuildMiddlewares :
        Len(metas) <= MaxDerived /\ Use(b, m)
  \/ \E b \in 1..Len(metas) : Len(metas) <= MaxDerived /\ Input(b)
  \/ \E b \in 1..Len(metas) : Len(metas) <= MaxDerived /\ Output(b)
  \/ \E b \in 1..Len(metas) : Query(b, "echo")
  \/ \E b \in 1..Len(metas) : Mutation(b, "echo")
  \/ \E o \in 1..Len(operations) :
        QueryFn(1, o, [token |-> TRUE, steps |-> {}], <<"good">>)
  \/ \E o \in 1..Len(operations) :
        MutationFn(1, o, [token |-> TRUE, steps |-> {}], <<"good">>)
  \/ EnterMiddleware(1)
  \/ RunHandler(1)
  \/ Resume(1)
  \/ Settle(1)

SpecBuild == Init /\ [][NextBuild]_vars

\* Property reads on the views the caller holds: any property at all.
NextProxy ==
  \E v \in 1..Len(views), prop \in Props : Get(v, prop, MaxNested, MaxLeaves)

SpecProxy == InitProxy /\ [][NextProxy]_vars

\* Navigation of the api along its collections and operations.
NavProps == {"users", "admin", "get", "create"}

NextNav ==
  \E v \in 1..Len(views), prop \in NavProps : Get(v, prop, MaxViews, MaxAccessors)

SpecNav == InitProxy /\ [][NextNav]_vars

\* Property reads on the view that core.ts router(options, api) returns.
InitCore ==
  /\ metas = CreateOperationBuilder(<<>>, EmptyMeta)
  /\ operations = <<>>
  /\ calls = [k \in CallIds |-> IdleCall]
  /\ objects = Tree(FALSE)
  /\ views = CreateProxy(<<>>, 1, <<>>, RouterCtx, <<>>)
  /\ collections = <<>>
  /\ accessors = <<>>
  /\ last = Accessed(0, "", NoValue)
  /\ descriptors = <<>>
  /\ invoked = [k \in CallIds |-> NoInvocation]
  /\ keyed = NoKeyed
  /\ validated = NoParsed

NextCore ==
  \E v \in 1..Len(views), prop \in Props : CoreGet(v, prop, MaxNested, MaxLeaves)

SpecCore == InitCore /\ [][NextCore]_vars

\* Keys built directly, for paths of bounded length.
MaxPathLen == 3
KeySegments == {"users", "get"}

RECURSIVE SeqsUpTo(_, _)
SeqsUpTo(S, n) ==
  IF n = 0 THEN {<<>>}
  ELSE LET shorter == SeqsUpTo(S, n - 1)
       IN shorter \cup {Append(q, x) : q \in shorter, x \in S}

KeyInputValues == {NoValue, Null, Prim(0), Prim(1)}

NextKey ==
  \E path \in SeqsUpTo(KeySegments, MaxPathLen),
     input \in KeyInputValues, kind \in KeyKinds : BuildKey(path, input, kind)

SpecKey == Init /\ [][NextKey]_vars

\* Values parsed directly, by schemas that answer at once or with a promise.
MaxValueLen == 3
ValueParts == {"good", "bad", "in"}
Schemas == {"in", "out"}

NextParse ==
  \E schema \in Schemas, async \in BOOLEAN,
     v \in SeqsUpTo(ValueParts, MaxValueLen) : ParseValue(schema, async, v)

SpecParse == Init /\ [][NextParse]_vars

\* Two routers over one api tree whose leaves are operations finalized from
\* a builder with or without middlewares.
CtxA == RouterCtx
CtxB == [token |-> FALSE, steps |-> {}]

OptionMetas ==
  InputMeta(UseMeta(CreateOperationBuilder(<<>>, EmptyMeta), 1, "pass"), 2, "in")

InitOptions ==
  /\ metas = OptionMetas
  /\ \E b \in {1, Len(OptionMetas)}, h \in Handlers :
       operations = <<Execute("query", h, b, OptionMetas),
                      Execute("mutation", h, b, OptionMetas)>>
  /\ calls = [k \in CallIds |-> IdleCall]
  /\ objects = Tree(FALSE)
  /\ LET none == [views |-> <<>>, collections |-> <<>>]
         a    == CreateCollectionBuilder(none, 1, <<>>, CtxA, <<>>)
         b    == CreateCollectionBuilder(a, 1, <<>>, CtxB, <<"@B">>)
     IN views = b.views /\ collections = b.collections
  /\ accessors = <<>>
  /\ last = Accessed(0, "", NoValue)
  /\ descriptors = <<>>
  /\ invoked = [k \in CallIds |-> NoInvocation]
  /\ keyed = NoKeyed
  /\ validated = NoParsed

MaxDescriptors == 2
Pages == {"page2"}

\* One leaf of router A is resolved, directly or through one nested view,
\* descriptors are built from it and their fetch functions invoked, two
\* invocations at a time.
OptionInputs == RawInputs \cup {<<"good", "more">>}

NextFetch ==
  \/ \E v \in 1..Len(views), prop \in {"users", "get", "create"} :
        /\ v # 2 /\ accessors = <<>>
        /\ prop = "users" => \A i \in 1..Len(views) : views[i].path = <<>>
        /\ Get(v, prop, MaxNested, MaxLeaves)
  \/ \E input \in OptionInputs :
        QueryOptions(1, input, NoOverrides, MaxDescriptors)
  \/ \E input \in OptionInputs :
        InfiniteQueryOptions(1, input, NoOverrides, MaxDescriptors)
  \/ MutationOptions(1, NoOverrides, MaxDescriptors)
  \/ \E k \in CallIds, d \in 1..Len(descriptors) : InvokeQueryFn(k, d)
  \/ \E k \in CallIds, d \in 1..Len(descriptors), p \in Pages :
        InvokeInfiniteQueryFn(k, d, p)
  \/ \E k \in CallIds, d \in 1..Len(descriptors), v \in OptionInputs :
        InvokeMutationFn(k, d, v)
  \/ \E k \in CallIds : EnterMiddleware(k)
  \/ \E k \in CallIds : RunHandler(k)
  \/ \E k \in CallIds : Resume(k)
  \/ \E k \in CallIds : Settle(k)

SpecFetch == InitOptions /\ [][NextFetch]_vars

\* Leaves of either router are resolved, descriptors built and invoked.
MaxRouterLeaves == 2

NextRouters ==
  \/ \E v \in {1, 2} : Get(v, "get", MaxNested, MaxRouterLeaves)
  \/ \E a \in 1..Len(accessors) :
        QueryOptions(a, <<"good">>, NoOverrides, MaxDescriptors)
  \/ \E k \in CallIds, d \in 1..Len(descriptors) : InvokeQueryFn(k, d)
  \/ \E k \in CallIds : EnterMiddleware(k)
  \/ \E k \in CallIds : RunHandler(k)
  \/ \E k \in CallIds : Resume(k)
  \/ \E k \in CallIds : Settle(k)

SpecRouters == InitOptions /\ [][NextRouters]_vars

\* Descriptors of one leaf of router A, with any caller-supplied options;
\* mutations are then run.
NextDescriptors ==
  \/ \E v \in 1..Len(views), prop \in {"users", "get", "create"} :
        /\ v # 2 /\ accessors = <<>>
        /\ prop = "users" => \A i \in 1..Len(views) : views[i].path = <<>>
        /\ Get(v, prop, MaxNested, MaxLeaves)
  \/ \E a \in 1..Len(accessors), o \in OverrideObjects :
        QueryOptions(a, <<"good">>, o, MaxDescriptors)
  \/ \E a \in 1..Len(accessors), o \in OverrideObjects :
        InfiniteQueryOptions(a, <<"good">>, o, MaxDescriptors)
  \/ \E a \in 1..Len(accessors), o \in OverrideObjects :
        MutationOptions(a, o, MaxDescriptors)
  \/ \E d \in 1..Len(descriptors), v \in RawInputs : InvokeMutationFn(1, d, v)
  \/ EnterMiddleware(1)
  \/ RunHandler(1)
  \/ Resume(1)
  \/ Settle(1)

SpecDescriptors == InitOptions /\ [][NextDescriptors]_vars

(***************************************************************************)
(* Reading a call's record                                                 *)
(***************************************************************************)
Done(c) == c.st = "done"

Positions(c) == 1..Len(c.trace)

IsLogged(e) == e.ev \in {"enter", "handler", "exit", "catch"}

\* the shared log: entries, the handler, and post-next code, in order
Log(c) ==
  LET es == SelectSeq(c.trace, IsLogged)
  IN [j \in 1..Len(es) |-> <<es[j].ev, es[j].who>>]

ExpectedLog(n) ==
  [j \in 1..(2 * n + 1) |->
     IF j <= n THEN <<"enter", j>>
     ELSE IF j = n + 1 THEN <<"handler", 0>>
     ELSE <<"exit", 2 * n + 2 - j>>]

NextCount(c, i) ==
  Cardinality({p \in Positions(c) : c.trace[p].ev = "next" /\ c.trace[p].who = i})

AllCallNextOnce(c) == \A i \in 1..Len(c.mws) : NextCount(c, i) = 1

NoRaise(c) == \A p \in Positions(c) : c.trace[p].ok

HasCatcher(mws) == \E i \in 1..Len(mws) : Catches(mws[i])

ResultOf(e) == [ok |-> e.ok, val |-> e.val]
OptsOf(e)   == [ctx |-> e.ctx, input |-> e.input]

HandlerRan(c) == \E p \in Positions(c) : c.trace[p].ev = "handler"

(***************************************************************************)
(* C2: when a middleware mK finishes (returns or raises) without calling   *)
(* next, no later-declared middleware and not the handler executes in that *)
(* invocation, what it returned or raised is its own value, and that is    *)
(* what m(K-1) is resumed with, or what the caller gets when K = 1.        *)
(***************************************************************************)
C2_ShortCircuit ==
  \A k \in DOMAIN calls :
    LET c == calls[k] IN
    \A p \in Positions(c) :
      c.trace[p].ev = "finish" =>
        LET K == c.trace[p].who IN
        /\ c.hcalls = 0 /\ ~HandlerRan(c)
        /\ \A q \in Positions(c) : c.trace[q].ev = "enter" => c.trace[q].who <= K
        /\ p > 1 /\ c.trace[p - 1].ev = "enter" /\ c.trace[p - 1].who = K
        /\ ResultOf(c.trace[p]) =
             MiddlewareBefore(c.mws[K], K, OptsOf(c.trace[p - 1])).res
        /\ (p = Len(c.trace) /\ c.st = "run") =>
             /\ c.pc = "ret" /\ c.res = ResultOf(c.trace[p])
             /\ Len(c.stack) <= K - 1
             /\ c.trace[p].ok => Len(c.stack) = K - 1
             /\ c.stack # <<>> => c.chain[c.stack[Len(c.stack)].pos] = Len(c.stack)
        /\ (p < Len(c.trace) /\ c.trace[p].ok) =>
             /\ c.trace[p + 1].ev = "exit" /\ c.trace[p + 1].who = K - 1
             /\ ResultOf(c.trace[p + 1]) =
                  MiddlewareAfter(c.mws[K - 1], ResultOf(c.trace[p]))
        /\ (p < Len(c.trace) /\ ~c.trace[p].ok) =>
             /\ c.trace[p + 1].ev = "catch" /\ c.trace[p + 1].who < K
             /\ ResultOf(c.trace[p + 1]) =
                  MiddlewareAfter(c.mws[c.trace[p + 1].who], ResultOf(c.trace[p]))
        /\ (K = 1 /\ Done(c)) => c.outcome = ResultOf(c.trace[p])

C2_Witness ==
  \E k \in DOMAIN calls :
    LET c == calls[k] IN
    /\ Done(c) /\ Len(c.mws) = 3 /\ c.mws[2] = "short"
    /\ \E p \in Positions(c) : c.trace[p].ev = "finish" /\ c.trace[p].who = 2
    /\ c.outcome = Ok(<<"short">>)

C4_Threading ==
  \A k \in DOMAIN calls :
    LET c == calls[k] IN
    \A p \in Positions(c) :
      LET e == c.trace[p] IN
      /\ p = 1 => /\ e.ev \in {"enter", "handler"}
                  /\ OptsOf(e) = c.orig
                  /\ e.ev = "enter" => e.who = 1
      /\ (p > 1 /\ e.ev = "enter") =>
            /\ c.trace[p - 1].ev = "next"
            /\ c.trace[p - 1].who = e.who - 1
            /\ OptsOf(c.trace[p - 1]) = OptsOf(e)
      /\ (p > 1 /\ e.ev = "handler") =>
            /\ c.trace[p - 1].ev = "next"
            /\ c.trace[p - 1].who = Len(c.mws)
            /\ OptsOf(c.trace[p - 1]) = OptsOf(e)
      /\ e.ev = "handler" =>
            /\ e.ctx.steps = {i \in 1..Len(c.mws) : c.mws[i] = "pass"}
            /\ e.ctx.token = c.orig.ctx.token

C4_Witness ==
  \E k \in DOMAIN calls :
    LET c == calls[k] IN
    /\ c.hcalls = 1
    /\ c.mws = <<"pass", "input", "pass">>
    /\ \E p \in Positions(c) :
         /\ c.trace[p].ev = "handler"
         /\ c.trace[p].ctx.steps = {1, 3}
         /\ c.trace[p].input = <<"good", "in">>
         /\ c.orig.input = <<"good">>

IsPop(e) == e.ev \in {"exit", "catch"}

\* the catching middlewares suspended in next(...) when event p happened
SuspendedCatchers(c, p) ==
  {K \in 1..Len(c.mws) :
     /\ Catches(c.mws[K])
     /\ K # c.trace[p].who
     /\ \E q \in 1..(p - 1) :
          /\ c.trace[q].ev = "next" /\ c.trace[q].who = K
          /\ \A r \in (q + 1)..p : ~(IsPop(c.trace[r]) /\ c.trace[r].who = K)}

Innermost(S) == CHOOSE K \in S : \A J \in S : J <= K

(***************************************************************************)
(* C5: an error raised by the handler or by a later-declared middleware    *)
(* reaches the innermost middleware that wraps next in a catch (nothing in *)
(* between runs its post-next code or drops the error); what that          *)
(* middleware returns or throws instead is what the next outer middleware  *)
(* is resumed with, and the caller gets the result of the outermost step:  *)
(* a swallowed error gives a successful result.                            *)
(***************************************************************************)
C5_CatchObserves ==
  \A k \in DOMAIN calls :
    LET c == calls[k] IN
    /\ \A p \in Positions(c) :
         LET e == c.trace[p] IN
         /\ e.ev = "exit" => (p > 1 /\ c.trace[p - 1].ok)
         /\ e.ev = "catch" =>
              /\ p > 1 /\ ~c.trace[p - 1].ok /\ Catches(c.mws[e.who])
              /\ ResultOf(e) = MiddlewareAfter(c.mws[e.who], ResultOf(c.trace[p - 1]))
              /\ c.mws[e.who] = "swallow" => e.ok
         /\ (Done(c) /\ ~e.ok /\ SuspendedCatchers(c, p) # {}) =>
              /\ p < Len(c.trace)
              /\ c.trace[p + 1].ev = "catch"
              /\ c.trace[p + 1].who = Innermost(SuspendedCatchers(c, p))
    /\ (Done(c) /\ c.trace # <<>>) => c.outcome = ResultOf(c.trace[Len(c.trace)])

C5_Witness ==
  \E k \in DOMAIN calls :
    LET c == calls[k] IN
    /\ Done(c) /\ c.mws = <<"pass", "swallow", "pass">> /\ c.handler = "fail"
    /\ c.outcome = Ok(<<"fallback">>)
    /\ Log(c) = <<<<"enter", 1>>, <<"enter", 2>>, <<"enter", 3>>,
                  <<"handler", 0>>, <<"catch", 2>>, <<"exit", 1>>>>

(***************************************************************************)
(* C6: when the handler raises and no middleware of the chain catches, the *)
(* promise of queryFn / mutationFn rejects with that same error, no        *)
(* middleware runs its post-next code, and the handler ran exactly once.   *)
(***************************************************************************)
C6_HandlerErrorPropagates ==
  \A k \in DOMAIN calls :
    LET c == calls[k] IN
    \A p \in Positions(c) :
      (c.trace[p].ev = "handler" /\ ~c.trace[p].ok /\ ~HasCatcher(c.mws)) =>
         /\ p = Len(c.trace)
         /\ c.hcalls = 1
         /\ c.st = "run" => (c.pc = "ret" /\ c.res = ResultOf(c.trace[p]))
         /\ Done(c) => c.outcome = Err(<<"HandlerError">>)

C6_Witness ==
  \E k \in DOMAIN calls :
    LET c == calls[k] IN
    /\ Done(c) /\ c.handler = "fail" /\ c.hcalls = 1
    /\ c.mws = <<"pass", "output", "auth">>
    /\ c.outcome = Err(<<"HandlerError">>)

(***************************************************************************)
(* C7: the output-validation middleware calls next first, with the opts it *)
(* received, and parses the result afterwards; an operation built with     *)
(* .output(schema) resolves to the schema's parsed value, not to the raw   *)
(* result of the chain behind it, whenever the two differ.                 *)
(***************************************************************************)
C7_OutputParsed ==
  \A k \in DOMAIN calls :
    LET c == calls[k] IN
    \A p \in Positions(c) :
      LET e == c.trace[p] IN
      /\ (e.ev = "enter" /\ c.mws[e.who] = "output") =>
           /\ p < Len(c.trace)
           /\ c.trace[p + 1].ev = "next" /\ c.trace[p + 1].who = e.who
           /\ OptsOf(c.trace[p + 1]) = OptsOf(e)
      /\ (e.ev = "exit" /\ c.mws[e.who] = "output") =>
           LET raw == c.trace[p - 1].val IN
           /\ ResultOf(e) = Parse("out", raw)
           /\ e.ok => e.val = Validate("out", raw).value
           /\ (Done(c) /\ e.who = 1 /\ e.ok) =>
                /\ c.outcome = Ok(Validate("out", raw).value)
                /\ Validate("out", raw).value # raw => c.outcome.val # raw

C7_Witness ==
  \E k \in DOMAIN calls :
    LET c == calls[k] IN
    /\ Done(c) /\ c.mws = <<"output">> /\ c.handler = "echo"
    /\ c.via = "queryFn"
    /\ \E p \in Positions(c) :
         c.trace[p].ev = "handler" /\ c.trace[p].val = <<"res", "good">>
    /\ c.outcome = Ok(<<"res", "good", "out">>)

\* the middlewares an invocation entered, in order
Entered(c) ==
  LET es == SelectSeq(c.trace, LAMBDA e : e.ev = "enter")
  IN [j \in 1..Len(es) |-> c.mws[es[j].who]]

IsPrefix(a, b) == Len(a) <= Len(b) /\ \A j \in 1..Len(a) : a[j] = b[j]

(***************************************************************************)
(* C8: use, input, output, query and mutation return a new value and leave *)
(* every existing builder's _meta (its middleware list included) and every *)
(* existing Operation as they were; an Operation runs exactly the          *)
(* middlewares its builder held when it was finalized, whatever was        *)
(* derived afterwards.                                                     *)
(***************************************************************************)
C8_BuildersImmutable ==
  /\ [][ /\ Len(metas') >= Len(metas)
         /\ \A b \in 1..Len(metas) : metas'[b] = metas[b]
         /\ metas' # metas => Len(metas') = Len(metas) + 1
         /\ Len(operations') >= Len(operations)
         /\ \A o \in 1..Len(operations) : operations'[o] = operations[o]
         /\ operations' # operations => Len(operations') = Len(operations) + 1
       ]_vars
  /\ [](\A o \in 1..Len(operations) :
          metas[operations[o].meta].middlewares = operations[o].held)
  /\ [](\A k \in DOMAIN calls :
          LET c == calls[k] IN
          c.st # "idle" =>
            /\ c.mws = operations[c.op].held
            /\ IsPrefix(Entered(c), operations[c.op].held)
            /\ HandlerRan(c) => Entered(c) = operations[c.op].held)

C8_Witness ==
  \E k \in DOMAIN calls, b \in 1..Len(metas) :
    LET c == calls[k] IN
    /\ Done(c) /\ HandlerRan(c)
    /\ operations[c.op].held # <<>>
    /\ b > operations[c.op].born
    /\ Len(metas[b].middlewares) = Len(operations[c.op].held) + 1
    /\ IsPrefix(operations[c.op].held, metas[b].middlewares)

(***************************************************************************)
(* Reading the resolver                                                    *)
(***************************************************************************)
KeyInputs == {NoValue, Null, Prim(0), Prim(1)}

\* what target[p] carries, read from the tree itself
Raw(r) == objects[views[r.view].target].props[r.prop]

IsObjectValue(v) == v.t \in {"obj", "view"}

Underlying(v) == IF v.t = "view" THEN views[v.ref].target ELSE v.ref

Carries(v, type, opType) ==
  /\ IsObjectValue(v)
  /\ objects[Underlying(v)].type = type
  /\ objects[Underlying(v)].opType = opType

\* C9: a string property read on a resolver view yields an object exposing
\* queryOptions and infiniteQueryOptions when target[p] is tagged as a query
\* operation, an object exposing mutationOptions when it is tagged as a
\* mutation operation, a further (new) resolver view when target[p] is any
\* other non-null, non-array object, and target[p] itself otherwise
\* (undefined for a missing key); a symbol property yields target[p] as is.
C9_GetClassifies ==
  last.view # 0 =>
    LET raw == Raw(last)
        res == last.result
    IN IF ~IsString(last.prop) THEN res = raw
       ELSE IF Carries(raw, "operation", "query")
         THEN /\ res.t = "accessor"
              /\ accessors[res.ref].methods = {"queryOptions", "infiniteQueryOptions"}
       ELSE IF Carries(raw, "operation", "mutation")
         THEN /\ res.t = "accessor"
              /\ accessors[res.ref].methods = {"mutationOptions"}
       ELSE IF IsObjectValue(raw) /\ ~objects[Underlying(raw)].isArray
         THEN /\ res.t = "view"
              /\ res # raw
              /\ res.ref \in 1..Len(views)
              /\ views[res.ref].target = Underlying(raw)
       ELSE res = raw

\* a missing key was just read as undefined, after an operation leaf and a
\* nested collection had been resolved
C9_Witness ==
  /\ last.view # 0
  /\ last.prop = "missing"
  /\ last.result = NoValue
  /\ Len(accessors) >= 1
  /\ \E v \in 1..Len(views) : views[v].path # <<>>

KeyLen(key) == Len(key.segments) + Len(key.marker)

\* C15: buildQueryKey(path, undefined, undefined) is path itself, same
\* elements in the same order and no marker element; for the empty path it
\* is the empty sequence.
C15_BareKey ==
  (keyed.input = NoValue /\ keyed.kind = "") =>
    /\ keyed.key.segments = keyed.path
    /\ keyed.key.marker = <<>>
    /\ keyed.path = <<>> => KeyLen(keyed.key) = 0

\* a key was built for a path of three segments, two of them different, with
\* neither input nor kind
C15_Witness ==
  /\ keyed.input = NoValue /\ keyed.kind = ""
  /\ Len(keyed.path) = 3
  /\ keyed.path[1] # keyed.path[2]
  /\ KeyLen(keyed.key) = 3

\* C16: with a non-empty input or a defined kind, the key is path followed by
\* one marker; the marker's input and kind are the provided values and the
\* marker omits whichever of the two was undefined.
C16_MarkerExact ==
  (Truthy(keyed.input) \/ keyed.kind # "") =>
    /\ KeyLen(keyed.key) = Len(keyed.path) + 1
    /\ keyed.key.segments = keyed.path
    /\ Len(keyed.key.marker) = 1
    /\ LET marker == keyed.key.marker[1]
       IN /\ marker.hasInput <=> keyed.input # NoValue
          /\ marker.hasInput => marker.input = keyed.input
          /\ marker.hasKind <=> keyed.kind # ""
          /\ marker.hasKind => marker.kind = keyed.kind

\* C20: parse awaits validate(value); with issues it fails with a validation
\* error carrying exactly the issue list, without issues it resolves to the
\* result's value field; it neither resolves with issues present nor fails
\* with issues absent.
C20_ParseOutcome ==
  validated.schema # "" =>
    LET result == Validate(validated.schema, validated.raw)
    IN /\ result.hasIssues =>
            validated.result = Err(<<"ValidationError">> \o result.issues)
       /\ ~result.hasIssues => validated.result = Ok(result.value)
       /\ validated.result.ok <=> ~result.hasIssues

\* a schema that answers with a promise was given a value it rejects
C20_Witness ==
  /\ validated.schema # ""
  /\ validated.async
  /\ Validate(validated.schema, validated.raw).hasIssues
  /\ ~validated.result.ok
  /\ Len(validated.result.val) = 2

(***************************************************************************)
(* Reading descriptors and the invocations started through them            *)
(***************************************************************************)
\* the router an accessor was obtained from: the root view its accesses
\* started at
RootOf(trail) == IF trail # <<>> /\ trail[1] = "@B" THEN 2 ELSE 1

RouterCtxOf(acc) == views[RootOf(acc.trail)].ctx

DescriptorOf(k) == descriptors[invoked[k].desc]

AccessorOf(k) == accessors[DescriptorOf(k).accessor]

StartedBy(k, method) ==
  invoked[k].desc # 0 /\ DescriptorOf(k).method = method

HandlerEvents(c) == {p \in Positions(c) : c.trace[p].ev = "handler"}

\* what the chain of invocation c hands to the handler when it is given opts
Derived(c, opts) ==
  [ctx |-> [opts.ctx EXCEPT !.steps = {i \in 1..Len(c.mws) : c.mws[i] = "pass"}],
   input |-> IF \E i \in 1..Len(c.mws) : c.mws[i] = "input"
               THEN Validate("in", opts.input).value ELSE opts.input]

\* C11: queryFn of a queryOptions(input) descriptor calls the operation with
\* the router's shared context and exactly that input, on every invocation
\* and whatever other descriptors were built, and resolves to what the
\* handler returned or raised.
C11_QueryFnClosesOverInput ==
  \A k \in CallIds :
    StartedBy(k, "queryOptions") =>
      LET c   == calls[k]
          own == [ctx |-> RouterCtxOf(AccessorOf(k)),
                  input |-> DescriptorOf(k).input]
      IN /\ operations[c.op].type = "query"
         /\ c.orig = own
         /\ \A p \in HandlerEvents(c) : OptsOf(c.trace[p]) = Derived(c, own)
         /\ Done(c) =>
              IF HandlerRan(c)
                THEN \A p \in HandlerEvents(c) : c.outcome = ResultOf(c.trace[p])
                ELSE ~c.outcome.ok

\* the first of two descriptors built with different inputs was invoked
\* twice and both invocations finished with the handler's result
C11_Witness ==
  /\ Len(descriptors) = 2
  /\ descriptors[1].input # descriptors[2].input
  /\ \A k \in CallIds :
       /\ StartedBy(k, "queryOptions")
       /\ invoked[k].desc = 1
       /\ Done(calls[k])
       /\ HandlerRan(calls[k])
       /\ calls[k].outcome.ok

\* C12: mutationFn(variables) of a mutationOptions() descriptor passes the
\* variables of that very call, with the shared context, to the operation;
\* two calls on one descriptor reach the handler with their own variables.
C12_MutationFnPerCall ==
  \A k \in CallIds :
    StartedBy(k, "mutationOptions") =>
      LET c   == calls[k]
          own == [ctx |-> RouterCtxOf(AccessorOf(k)), input |-> invoked[k].arg]
      IN /\ operations[c.op].type = "mutation"
         /\ c.orig = own
         /\ \A p \in HandlerEvents(c) : OptsOf(c.trace[p]) = Derived(c, own)

\* two calls on one descriptor with different variables both reached the
\* handler
C12_Witness ==
  /\ StartedBy(1, "mutationOptions") /\ StartedBy(2, "mutationOptions")
  /\ invoked[1].desc = invoked[2].desc
  /\ invoked[1].arg # invoked[2].arg
  /\ HandlerRan(calls[1]) /\ HandlerRan(calls[2])

\* C13: queryFn({pageParam: p}) of an infiniteQueryOptions(input) descriptor
\* calls the handler with the merged input {...input, pageParam: p}: the
\* input the handler receives carries p.
C13_HandlerInputCarriesPage ==
  \A k \in CallIds :
    StartedBy(k, "infiniteQueryOptions") =>
      \A p \in HandlerEvents(calls[k]) :
        \E i \in 1..Len(calls[k].trace[p].input) :
          calls[k].trace[p].input[i] = invoked[k].page

\* C19: invocations in flight at the same time each hand their handler the
\* input and the middleware-derived context of their own invocation, resolve
\* to their own handler's result, and leave the shared context as it was.
C19_NoInterference ==
  /\ \A k \in CallIds :
       (StartedBy(k, "queryOptions") \/ StartedBy(k, "mutationOptions")) =>
         LET c   == calls[k]
             own == [ctx |-> CtxA,
                     input |-> IF StartedBy(k, "queryOptions")
                                 THEN DescriptorOf(k).input ELSE invoked[k].arg]
         IN /\ \A p \in HandlerEvents(c) :
                 /\ OptsOf(c.trace[p]) = Derived(c, own)
                 /\ ResultOf(c.trace[p]) = RunHandlerFn(c.handler, Derived(c, own))
            /\ (Done(c) /\ HandlerRan(c)) =>
                 c.outcome = RunHandlerFn(c.handler, Derived(c, own))
  /\ views[1].ctx = CtxA
  /\ \A a \in 1..Len(accessors) : accessors[a].ctx = CtxA

\* two invocations of one operation with different inputs, both past their
\* handler and both still suspended in a middleware
C19_Witness ==
  /\ \A k \in CallIds :
       /\ calls[k].st = "run"
       /\ HandlerRan(calls[k])
       /\ calls[k].stack # <<>>
  /\ calls[1].op = calls[2].op
  /\ calls[1].orig.input # calls[2].orig.input

\* C14: the mutationKey of every mutationOptions descriptor of a leaf at
\* path P is P itself, with no marker element, whatever options were passed
\* and whatever variables mutationFn was later called with.
C14_MutationKeyIsPath ==
  \A d \in 1..Len(descriptors) :
    descriptors[d].method = "mutationOptions" =>
      /\ descriptors[d].object.key.segments =
           accessors[descriptors[d].accessor].path
      /\ descriptors[d].object.key.marker = <<>>

\* a descriptor of the nested leaf users.create, built with options that
\* carry a key of the caller's own, has been run
C14_Witness ==
  /\ StartedBy(1, "mutationOptions")
  /\ Done(calls[1])
  /\ DescriptorOf(1).options.key # ""
  /\ AccessorOf(1).path = <<"users", "create">>
  /\ DescriptorOf(1).object.key.segments = <<"users", "create">>

\* C17: in every descriptor the caller-supplied options are applied last:
\* each of their fields is in the descriptor with the caller's value, and a
\* key or fetch function among them replaces the computed one.
C17_OverridesWin ==
  \A d \in 1..Len(descriptors) :
    LET given == descriptors[d].options
        built == descriptors[d].object
    IN /\ built.staleTime = given.staleTime
       /\ given.key # "" => built.key = CustomKey
       /\ given.fn # "" => built.fn = given.fn

\* C18: a descriptor obtained from one router never hands another router's
\* context to a middleware or a handler: every context an invocation sees
\* stems from the context of the router its accessor was read from.
C18_ContextIsolation ==
  \A k \in CallIds :
    invoked[k].desc # 0 =>
      LET c   == calls[k]
          own == RouterCtxOf(AccessorOf(k))
      IN /\ AccessorOf(k).ctx = own
         /\ c.orig.ctx = own
         /\ \A p \in Positions(c) :
              c.trace[p].ev \in {"enter", "next", "handler"} =>
                c.trace[p].ctx.token = own.token

\* invocations through router A and through router B have both run their
\* handler
C18_Witness ==
  /\ \A k \in CallIds : invoked[k].desc # 0 /\ HandlerRan(calls[k])
  /\ RootOf(AccessorOf(1).trail) = 1
  /\ RootOf(AccessorOf(2).trail) = 2
  /\ CtxA # CtxB

(***************************************************************************)
(* Laziness and the registry of views                                      *)
(***************************************************************************)

\* C21: resolution is lazy.  Constructing the root view constructs no view
\* and no accessor for any descendant, and a single property read constructs
\* at most one new view or accessor, the one of the child that was read;
\* everything built before stays as it was.
C21_Lazy ==
  /\ accessors = <<>>
  /\ \A v \in 1..Len(views) : views[v].path = <<>>
  /\ [][ /\ IsPrefix(views, views')
         /\ IsPrefix(accessors, accessors')
         /\ Len(views') + Len(accessors')
              <= Len(views) + Len(accessors) + 1
         /\ Len(views') > Len(views) =>
              /\ last'.result = ViewVal(Len(views'))
              /\ views'[Len(views')].trail
                   = Append(views[last'.view].trail, last'.prop)
         /\ Len(accessors') > Len(accessors) =>
              /\ last'.result = AccessorVal(Len(accessors'))
              /\ accessors'[Len(accessors')].trail
                   = Append(views[last'.view].trail, last'.prop) ]_vars

\* users was read from the root: its view exists, and nothing below it
\* (admin, get, create) has been built
C21_Witness ==
  /\ last.view # 0
  /\ last.prop = "users"
  /\ last.result.t = "view"
  /\ accessors = <<>>
  /\ Cardinality({v \in 1..Len(views) : views[v].path # <<>>}) = 1

\* C28: when target[p] is a view registered by an earlier collection(...),
\* navigation builds the child view over that view's original target and
\* with the navigating view's path plus p; a leaf reached through it is
\* bound to the full path from the navigating root, the one it has when the
\* child is a plain mapping, and not to the shorter path below the inner view.
C28_WrappedChildUnwrapped ==
  /\ (last.view # 0 /\ IsString(last.prop) /\ Raw(last).t = "view") =>
       /\ last.result.t = "view"
       /\ last.result # Raw(last)
       /\ views[last.result.ref].target = views[Raw(last).ref].target
       /\ views[last.result.ref].path
            = Append(views[last.view].path, last.prop)
  /\ \A a \in 1..Len(accessors) :
       LET t == accessors[a].trail
       IN /\ accessors[a].path = t
          /\ (Len(t) = 2 /\ t[1] = "users") =>
               accessors[a].handler
                 = objects[Tree(FALSE)[1].props[t[1]].ref].props[t[2]].ref

\* users is the view of an earlier collection(...), and users.get was
\* resolved through the root
C28_Witness ==
  /\ objects[1].props["users"].t = "view"
  /\ \E a \in 1..Len(accessors) :
       /\ accessors[a].trail = <<"users", "get">>
       /\ accessors[a].path = <<"users", "get">>

\* C30: every view built by createCollectionBuilder has exactly one entry of
\* the router's collections registry, mapping it to its raw target; after n
\* views were built, repeated navigation of one path included, the registry
\* holds n entries.
C30_RegistryPerView ==
  /\ Len(collections) = Len(views)
  /\ \A i \in 1..Len(views) :
       collections[i] = [proxy |-> i, originalTarget |-> views[i].target,
                         isCollection |-> TRUE]

\* one path was navigated twice: two views of users, two entries
C30_Witness ==
  /\ \E i, j \in 1..Len(views) :
       i # j /\ views[i].trail = <<"users">> /\ views[j].trail = <<"users">>
  /\ Len(collections) >= 3

\* C22: a property whose value is an array or null is never resolved as a
\* nested collection: the read returns the value itself, unchanged, and no
\* view is built for the path extended by that property.
C22_ArrayNullPassThrough ==
  (/\ last.view # 0
   /\ IsString(last.prop)
   /\ \/ Raw(last).t = "null"
      \/ Raw(last).t = "obj" /\ objects[Raw(last).ref].isArray) =>
    /\ last.result = Raw(last)
    /\ \A v \in 1..Len(views) :
         views[v].path # Append(views[last.view].path, last.prop)

(***************************************************************************)
(* Keys of the three options builders                                      *)
(***************************************************************************)

\* C26: the key builder treats input as present whenever it is not
\* undefined: for a defined but falsy input (0, null) and no kind, the key is
\* the path followed by exactly one marker that contains that input, not the
\* bare path.
C26_DefinedInputIsPresent ==
  (keyed.input.t # "undefined" /\ keyed.kind = "") =>
    /\ keyed.key.segments = keyed.path
    /\ Len(keyed.key.marker) = 1
    /\ keyed.key.marker[1].hasInput
    /\ keyed.key.marker[1].input = keyed.input

\* C29: for any path P and input, the keys that queryOptions,
\* infiniteQueryOptions and mutationOptions build are pairwise distinct: the
\* query and infinite keys are P followed by one marker of kind 'query' and
\* 'infinite' (also when input is undefined), the mutation key is the bare
\* P; two queryOptions keys for P are equal exactly when their inputs are.
C29_KeysDistinct ==
  keyed.kind # "" =>
    LET a        == [path |-> keyed.path]
        P        == keyed.path
        input    == keyed.input
        query    == OptionsKey(a, "queryOptions", input)
        infinite == OptionsKey(a, "infiniteQueryOptions", input)
        mutation == OptionsKey(a, "mutationOptions", input)
    IN /\ keyed.key = (IF keyed.kind = "query" THEN query ELSE infinite)
       /\ query # infinite
       /\ query # mutation
       /\ infinite # mutation
       /\ query.segments = P /\ Len(query.marker) = 1
       /\ query.marker[1].kind = "query"
       /\ infinite.segments = P /\ Len(infinite.marker) = 1
       /\ infinite.marker[1].kind = "infinite"
       /\ mutation = [segments |-> P, marker |-> <<>>]
       /\ \A other \in KeyInputValues :
            (OptionsKey(a, "queryOptions", other) = query) <=> (other = input)

\* the key of queryOptions() for a nested leaf, called without input
C29_Witness ==
  /\ keyed.kind = "query"
  /\ keyed.input = NoValue
  /\ keyed.path = <<"users", "get">>
  /\ Len(keyed.key.marker) = 1

(***************************************************************************)
(* Validation middlewares in the chain                                     *)
(***************************************************************************)

\* the input that the chain element declared at position i is called with
\* when every input validation before it accepted: raw, parsed by each
\* input validation declared before i
RECURSIVE InputAt(_, _, _)
InputAt(mws, i, raw) ==
  IF i <= 1 THEN raw
  ELSE LET before == InputAt(mws, i - 1, raw)
       IN IF mws[i - 1] = "input" THEN Parse("in", before).val ELSE before

\* C23: validation is ordered by call order.  The middleware list of each
\* builder of a fluent chain is the list of the builder it was derived from
\* plus the element of that call, so at finalization it is exactly the
\* sequence of use/input/output calls; a middleware declared before
\* input(S) is entered before S validates and receives the raw input, a
\* middleware declared after it and the handler receive S's parsed value.
C23_CallOrder ==
  /\ \A b \in 2..Len(metas) :
       /\ Len(metas[b].middlewares) = Len(metas[b - 1].middlewares) + 1
       /\ IsPrefix(metas[b - 1].middlewares, metas[b].middlewares)
  /\ \A o \in 1..Len(operations) :
       operations[o].held = metas[operations[o].meta].middlewares
  /\ \A k \in CallIds :
       LET c == calls[k]
       IN \A p \in Positions(c) :
            /\ c.trace[p].ev = "enter" =>
                 /\ c.trace[p].input = InputAt(c.mws, c.trace[p].who, c.orig.input)
                 /\ \A q \in Positions(c) :
                      (c.trace[q].ev = "enter" /\ c.trace[q].who < c.trace[p].who)
                        => q < p \/ c.trace[p].who = c.trace[q].who
            /\ c.trace[p].ev = "handler" =>
                 c.trace[p].input = InputAt(c.mws, Len(c.mws) + 1, c.orig.input)

\* use(pass).input(S).use(pass).query(echo) was invoked: the first
\* middleware saw the raw input, the second and the handler the parsed one
C23_Witness ==
  LET c == calls[1]
  IN /\ Done(c)
     /\ c.mws = <<"pass", "input", "pass">>
     /\ \E p, q, r \in Positions(c) :
          /\ p < q /\ q < r
          /\ c.trace[p].ev = "enter" /\ c.trace[p].who = 1
          /\ c.trace[p].input = <<"good">>
          /\ c.trace[q].ev = "enter" /\ c.trace[q].who = 3
          /\ c.trace[q].input = <<"good", "in">>
          /\ c.trace[r].ev = "handler"
          /\ c.trace[r].input = <<"good", "in">>

\* an input validation of the invocation raised, at position i
InputRaisedAt(c, i) ==
  \E p \in Positions(c) :
    /\ c.trace[p].ev = "finish" /\ c.trace[p].who = i
    /\ c.mws[i] = "input" /\ ~c.trace[p].ok

\* an output validation of the invocation ran its parse step
OutputParsed(c) ==
  \E p \in Positions(c) :
    c.trace[p].ev = "exit" /\ c.mws[c.trace[p].who] = "output"

CatcherBefore(c, i) == \E j \in 1..(i - 1) : Catches(c.mws[j])

\* C24 as stated: when an input validation raises, no output validation of
\* the chain runs its parse step, declared before or after it, and the
\* invocation rejects with the input validation error.
C24_Original ==
  \A k \in CallIds :
    LET c == calls[k]
    IN \A i \in 1..Len(c.mws) :
         InputRaisedAt(c, i) =>
           /\ ~OutputParsed(c)
           /\ Done(c) => c.outcome = Err(<<"ValidationError", "in">>)

\* C24: when an input validation raises and no middleware declared before
\* it catches errors, no output validation of the chain runs its parse
\* step, declared before or after it, and the invocation rejects with the
\* input validation error.
C24_InputErrorSkipsOutput ==
  \A k \in CallIds :
    LET c == calls[k]
    IN \A i \in 1..Len(c.mws) :
         (InputRaisedAt(c, i) /\ ~CatcherBefore(c, i)) =>
           /\ ~OutputParsed(c)
           /\ Done(c) => c.outcome = Err(<<"ValidationError", "in">>)

\* output(S').input(S).output(S') rejected a bad input
C24_Witness ==
  LET c == calls[1]
  IN /\ Done(c)
     /\ c.mws = <<"output", "input", "output">>
     /\ InputRaisedAt(c, 2)
     /\ c.outcome = Err(<<"ValidationError", "in">>)

\* the handler returned a result that the output schema rejects
HandlerResultFails(c) ==
  /\ \E i \in 1..Len(c.mws) : c.mws[i] = "output"
  /\ \E p \in Positions(c) :
       c.trace[p].ev = "handler" /\ c.trace[p].ok /\ HasBad(c.trace[p].val)

\* where the output validation that receives the handler's result is
InnermostOutput(c) ==
  CHOOSE i \in 1..Len(c.mws) :
    c.mws[i] = "output" /\ \A j \in (i + 1)..Len(c.mws) : c.mws[j] # "output"

\* what C25 says of a finished invocation: rejected with the output
\* validation error, raised after the handler ran, once, to completion
OutputErrorAfterHandler(c) ==
  /\ c.outcome = Err(<<"ValidationError", "out">>)
  /\ c.hcalls = 1
  /\ \E p, q \in Positions(c) :
       /\ p < q
       /\ c.trace[p].ev = "handler" /\ c.trace[p].ok
       /\ c.trace[q].ev = "exit" /\ c.mws[c.trace[q].who] = "output"
       /\ ~c.trace[q].ok
       /\ c.outcome # Ok(c.trace[p].val)

\* C25 as stated: for an operation built with output(schema), when the
\* handler's result fails the schema the invocation rejects with the
\* validation error, raised after the handler ran to completion; the handler
\* ran exactly once and its raw result is not delivered.
C25_Original ==
  \A k \in CallIds :
    (Done(calls[k]) /\ HandlerResultFails(calls[k])) =>
      OutputErrorAfterHandler(calls[k])

\* C25: the same, for a chain in which no middleware declared before the
\* output validation catches errors.
C25_OutputErrorAfterHandler ==
  \A k \in CallIds :
    LET c == calls[k]
    IN (Done(c) /\ HandlerResultFails(c)
          /\ ~CatcherBefore(c, InnermostOutput(c))) =>
         OutputErrorAfterHandler(c)

\* use(pass).output(S').query(echo) returned a result S' rejects
C25_Witness ==
  LET c == calls[1]
  IN /\ Done(c)
     /\ c.mws = <<"pass", "output">>
     /\ HandlerResultFails(c)
     /\ c.hcalls = 1
     /\ c.outcome = Err(<<"ValidationError", "out">>)

(***************************************************************************)
(* Calling next more than once                                             *)
(***************************************************************************)
EventCount(c, ev, who) ==
  Cardinality({p \in Positions(c) : c.trace[p].ev = ev /\ c.trace[p].who = who})

\* C27: next has no once-only guard.  Every call of next by the middleware
\* declared at i runs the rest of the chain again: the middleware declared
\* at i + 1 (the handler after the last one) is executed once per call, with
\* the context and input given to that call; a middleware that calls next
\* NextCalls times each time it is entered makes what follows it run
\* NextCalls times as often, and what it returns (here what its last call
\* returned) is the result of the invocation.
C27_NextRepeats ==
  \A k \in CallIds :
    LET c == calls[k]
        n == Len(c.mws)
    IN /\ \A p \in Positions(c) :
            (c.trace[p].ev = "next" /\ p < Len(c.trace)) =>
              LET e == c.trace[p]
                  f == c.trace[p + 1]
              IN /\ OptsOf(f) = OptsOf(e)
                 /\ IF e.who < n THEN f.ev = "enter" /\ f.who = e.who + 1
                    ELSE f.ev = "handler"
       /\ Done(c) =>
            /\ \A i \in 1..n :
                 EventCount(c, "next", i)
                   = IF i < n THEN EventCount(c, "enter", i + 1) ELSE c.hcalls
            /\ NoRaise(c) =>
                 /\ \A i \in 1..n :
                      c.mws[i] = "twice" =>
                        EventCount(c, "next", i)
                          = NextCalls * EventCount(c, "enter", i)
                 /\ \E p \in Positions(c) :
                      /\ c.trace[p].ev = "handler"
                      /\ \A q \in Positions(c) :
                           c.trace[q].ev = "handler" => q <= p
                      /\ c.outcome = ResultOf(c.trace[p])

\* use(twice).use(pass).query(echo) was invoked: pass and the handler ran
\* twice, with the inputs of the two calls, and the invocation resolved with
\* what the second call returned
C27_Witness ==
  LET c == calls[1]
  IN /\ Done(c)
     /\ c.mws = <<"twice", "pass">>
     /\ c.hcalls = 2
     /\ EventCount(c, "enter", 2) = 2
     /\ \E p, q \in Positions(c) :
          /\ p < q
          /\ c.trace[p].ev = "handler" /\ c.trace[p].input = <<"good">>
          /\ c.trace[q].ev = "handler"
          /\ c.trace[q].input = <<"good", "again">>
     /\ c.outcome = Ok(<<"res", "good", "again">>)

====
